---- MODULE Spec2Model ----
(***************************************************************************)
(* Checkpoint lifecycle of tbd/utils/checkpointing.py:                     *)
(* create_checkpoint_dir, save_checkpoint and load_checkpoint acting on a  *)
(* file system and in-memory torch objects; the git work tree and the wall *)
(* clock are inputs of each call.  Spec is the synchronous training loop,  *)
(* SpecThreads runs save_checkpoint from several threads, and SpecReader   *)
(* is ClevrTokensReader of tbd/data/readers.py with its callers.           *)
(***************************************************************************)
EXTENDS Integers, Sequences, FiniteSets, TLC

VARIABLES dirs, files, handles, mval, oval, last, snap, written,
          thr, reader, callers

vars == <<dirs, files, handles, mval, oval, last, snap, written, thr, reader, callers>>

ckptVars == <<dirs, files, handles, mval, oval, last, snap, written>>

(* ------------------------------ bounds -------------------------------- *)

\* datetime.now() reads a wall-clock tick in 0..MaxTick
MaxTick == 1
\* clock ticks per second of the timestamp format
TicksPerSecond == 2
\* iteration numbers range over 0..MaxStep
MaxStep == 1
\* a dataset of the HDF file holds 0..MaxRows rows
MaxRows == 2

(* ----------------------------- environment ---------------------------- *)

NL == "\n"

\* values of --save-dirpath
BaseDirs == {"ckpt"}

\* contents the file at --config-yml can have
Configs == {<<"x">>}

\* short commit hashes HEAD can have
Revisions == {"a", "b"}

\* the git work tree a call runs in: at a revision, not a repository, or
\* without a git binary
GitStates == Revisions \cup {"norepo", "nogit"}

Steps == 0..MaxStep
\* the opaque values a parameter tensor or an optimizer buffer can hold
Vals == {"w0", "w1"}

\* the nn.Module being trained
Modules == {"net"}

\* model arguments: the bare nn.Module and an nn.DataParallel around it
Models == {"net", "dp"}

\* model.module of a wrapper, the model itself otherwise
ModuleOf(m) == "net"

\* optimizer arguments, with different numbers of parameter groups
Optimizers == {"sgd1", "sgd2"}

None == "None"

IsDataParallel(m) == m = "dp"

ParamGroups(o) == IF o = "sgd1" THEN 1 ELSE 2

(* ------------------------------ strings ------------------------------- *)

IsSpace(c) == c \in {" ", NL, "\t"}

RECURSIVE LStrip(_)
LStrip(s) == IF s = <<>> THEN s
             ELSE IF IsSpace(Head(s)) THEN LStrip(Tail(s)) ELSE s

RECURSIVE RStrip(_)
RStrip(s) == IF s = <<>> THEN s
             ELSE IF IsSpace(s[Len(s)]) THEN RStrip(SubSeq(s, 1, Len(s) - 1)) ELSE s

\* str.strip()
Strip(s) == RStrip(LStrip(s))

IsNotNL(c) == c # NL

\* str.replace("\n", "")
ReplaceNL(s) == SelectSeq(s, IsNotNL)

\* .strip().replace("\n", "")
CleanSha(s) == ReplaceNL(Strip(s))

\* stdout of `git rev-parse --short HEAD`; outside a repository git prints
\* its error on stderr and nothing on stdout
GitStdout(g) == IF g \in Revisions THEN <<g, NL>> ELSE <<>>

(* ---------------------------- file system ----------------------------- *)

\* datetime.strftime(datetime.now(), "%d-%b-%Y-%H:%M:%S"): second resolution
Strftime(t) == t \div TicksPerSecond

Ticks == 0..MaxTick

Stamps == {Strftime(t) : t \in Ticks}

\* os.path.join(save_dirpath, save_datetime)
JoinDir(base, stamp) == <<base, stamp>>

DirPaths == {JoinDir(b, s) : b \in BaseDirs, s \in Stamps}

ConfigName == <<"config.yml">>

ShaName == <<"commit_sha.txt">>

\* a file name that leaves the iteration number out
ArtifactNameFixed(iteration) == <<"model_", 0, ".pth">>

\* f"model_{iteration}.pth"
ArtifactName(iteration) == <<"model_", iteration, ".pth">>

ArtifactNames == {ArtifactName(s) : s \in Steps}

FileNames == {ConfigName, ShaName} \cup ArtifactNames

NoFile == [kind |-> "nofile"]

\* a file that was opened for writing and not written to the end
Torn == [kind |-> "torn"]

TextFile(t) == [kind |-> "text", text |-> t]

PthFile(obj) == [kind |-> "pth", obj |-> obj]

EmptyDir == [f \in FileNames |-> NoFile]

(* --------------------------- torch objects ---------------------------- *)

\* nn.Module.state_dict(): parameter names carry no prefix
ModuleStateDict(v) == [prefix |-> "", val |-> v]

\* nn.DataParallel.state_dict(): parameter names are prefixed by "module."
WrapperStateDict(v) == [prefix |-> "module.", val |-> v]

\* optim.Optimizer.state_dict()
OptimizerStateDict(o, v) == [groups |-> ParamGroups(o), val |-> v]

\* obj.state_dict() called on the argument itself
StateDict(m, v) == IF IsDataParallel(m) THEN WrapperStateDict(v) ELSE ModuleStateDict(v)

\* nn.Module.load_state_dict(sd), strict: the names must be the module's own.
\* Returns the error raised and the value the module holds afterwards.
ModuleLoadStateDict(sd, v) ==
    IF sd.prefix = "" THEN [err |-> "none", val |-> sd.val]
    ELSE [err |-> "RuntimeError", val |-> v]

\* nn.DataParallel.load_state_dict(sd), strict: the names must be prefixed
WrapperLoadStateDict(sd, v) ==
    IF sd.prefix = "module." THEN [err |-> "none", val |-> sd.val]
    ELSE [err |-> "RuntimeError", val |-> v]

\* obj.load_state_dict(sd) called on the argument itself
LoadStateDict(m, sd, v) ==
    IF IsDataParallel(m) THEN WrapperLoadStateDict(sd, v) ELSE ModuleLoadStateDict(sd, v)

\* optim.Optimizer.load_state_dict(sd): the parameter groups must match
OptimizerLoadStateDict(o, sd, v) ==
    IF sd.groups = ParamGroups(o) THEN [err |-> "none", val |-> sd.val]
    ELSE [err |-> "ValueError", val |-> v]

(* --------------------------- save_checkpoint -------------------------- *)

\* a snapshot that asks the argument itself, wrapper or not
SnapshotModelOfArgument(m, mv) == StateDict(m, mv[ModuleOf(m)])

\* the model's state dict as save_checkpoint takes it
SnapshotModel(m, mv) ==
    IF IsDataParallel(m) THEN ModuleStateDict(mv[ModuleOf(m)])
    ELSE StateDict(m, mv[ModuleOf(m)])

\* the dictionary handed to torch.save
SavedComponents(m, o, mv, ov) ==
    [model |-> SnapshotModel(m, mv), optimizer |-> OptimizerStateDict(o, ov[o])]

\* how a torch.save can end: written, not opened, or opened and cut short
IoOutcomes == {"ok", "open_fails", "write_fails"}

\* a save that keeps the newest checkpoint only
TorchSaveKeepLatest(df, name, obj, io) ==
    IF io = "ok"
    THEN [err |-> "none",
          files |-> [f \in DOMAIN df |->
                        IF f = name THEN PthFile(obj)
                        ELSE IF f \in ArtifactNames THEN NoFile ELSE df[f]]]
    ELSE IF io = "open_fails" THEN [err |-> "OSError", files |-> df]
    ELSE [err |-> "OSError", files |-> [df EXCEPT ![name] = Torn]]

\* torch.save(obj, path) on the files of one directory: the file is opened
\* for writing (created or truncated) and the pickle is written into it
TorchSave(df, name, obj, io) ==
    IF io = "ok" THEN [err |-> "none", files |-> [df EXCEPT ![name] = PthFile(obj)]]
    ELSE IF io = "open_fails" THEN [err |-> "OSError", files |-> df]
    ELSE [err |-> "OSError", files |-> [df EXCEPT ![name] = Torn]]

NoSnap == [ok |-> FALSE, model |-> "w0", optimizer |-> "w0", groups |-> 0]

\* the call that has just ended: its arguments, the git state it ran in, the
\* exception it raised, whether it warned, and whether it replaced a complete
\* artifact by another
Idle == [op |-> "none", dir |-> <<"", 0>>, step |-> 0, model |-> None, opt |-> None,
         git |-> None, err |-> "none", warned |-> FALSE, replaced |-> FALSE]

SaveCheckpoint(d, it, m, o, io) ==
    /\ handles[d] > 0
    /\ \E r \in {TorchSave(files[d], ArtifactName(it), SavedComponents(m, o, mval, oval), io)} :
          /\ files' = [files EXCEPT ![d] = r.files]
          /\ last' = [op |-> "save", dir |-> d, step |-> it, model |-> m, opt |-> o,
                      git |-> None, err |-> r.err, warned |-> FALSE,
                      replaced |-> /\ io = "ok"
                                   /\ files[d][ArtifactName(it)].kind = "pth"
                                   /\ files[d][ArtifactName(it)] # r.files[ArtifactName(it)]]
          /\ snap' = [snap EXCEPT ![d][it] =
                         IF io = "ok"
                         THEN [ok |-> TRUE, model |-> mval[ModuleOf(m)], optimizer |-> oval[o],
                               groups |-> ParamGroups(o)]
                         ELSE IF io = "write_fails" THEN NoSnap ELSE @]
          /\ written' = [written EXCEPT ![d] = IF io = "open_fails" THEN @ ELSE @ \cup {it}]
    /\ UNCHANGED <<dirs, handles, mval, oval, thr, reader, callers>>

(* --------------------------- load_checkpoint -------------------------- *)

\* a load that falls back to a freshly initialised bundle
TorchLoadDefault(f) ==
    IF f.kind = "nofile"
    THEN [err |-> "none",
          obj |-> [model |-> ModuleStateDict("w0"),
                   optimizer |-> [groups |-> 1, val |-> "w0"]]]
    ELSE IF f.kind = "pth" THEN [err |-> "none", obj |-> f.obj]
    ELSE [err |-> "UnpicklingError", obj |-> << >>]

\* torch.load(path)
TorchLoad(f) ==
    IF f.kind = "nofile" THEN [err |-> "FileNotFoundError", obj |-> << >>]
    ELSE IF f.kind = "pth" THEN [err |-> "none", obj |-> f.obj]
    ELSE [err |-> "UnpicklingError", obj |-> << >>]

\* the model's load as load_checkpoint calls it
RestoreModel(m, sd, v) ==
    IF IsDataParallel(m) THEN ModuleLoadStateDict(sd, v) ELSE LoadStateDict(m, sd, v)

\* a restore that forgets the optimizer
RestoreComponentsModelOnly(components, m, o, mv, ov) ==
    IF "model" \notin DOMAIN components
    THEN [err |-> "KeyError", mval |-> mv, oval |-> ov]
    ELSE LET rm == RestoreModel(m, components.model, mv[ModuleOf(m)])
         IN [err |-> rm.err, mval |-> [mv EXCEPT ![ModuleOf(m)] = rm.val], oval |-> ov]

\* a restore that refuses an artifact holding a component nobody asked for
RestoreComponentsStrict(components, m, o, mv, ov) ==
    IF "model" \notin DOMAIN components \/ (o = None /\ "optimizer" \in DOMAIN components)
    THEN [err |-> "KeyError", mval |-> mv, oval |-> ov]
    ELSE LET rm == RestoreModel(m, components.model, mv[ModuleOf(m)])
             mv1 == [mv EXCEPT ![ModuleOf(m)] = rm.val]
         IN IF rm.err # "none" THEN [err |-> rm.err, mval |-> mv1, oval |-> ov]
            ELSE IF o = None THEN [err |-> "none", mval |-> mv1, oval |-> ov]
            ELSE LET ro == OptimizerLoadStateDict(o, components.optimizer, ov[o])
                 IN [err |-> ro.err, mval |-> mv1, oval |-> [ov EXCEPT ![o] = ro.val]]

\* the part of load_checkpoint after torch.load: restore the model, then the
\* optimizer when one is given
RestoreComponents(components, m, o, mv, ov) ==
    IF "model" \notin DOMAIN components
    THEN [err |-> "KeyError", mval |-> mv, oval |-> ov]
    ELSE LET rm == RestoreModel(m, components.model, mv[ModuleOf(m)])
             mv1 == [mv EXCEPT ![ModuleOf(m)] = rm.val]
         IN IF rm.err # "none" THEN [err |-> rm.err, mval |-> mv1, oval |-> ov]
            ELSE IF o = None THEN [err |-> "none", mval |-> mv1, oval |-> ov]
            ELSE IF "optimizer" \notin DOMAIN components
            THEN [err |-> "KeyError", mval |-> mv1, oval |-> ov]
            ELSE LET ro == OptimizerLoadStateDict(o, components.optimizer, ov[o])
                 IN [err |-> ro.err, mval |-> mv1, oval |-> [ov EXCEPT ![o] = ro.val]]

\* a commit check that raises instead of warning
ShaCheckRaising(current, recorded) ==
    [err |-> IF current # recorded THEN "RuntimeError" ELSE "none",
     warned |-> current # recorded]

\* current commit differs from the recorded one: warnings.warn, no raise
ShaCheck(current, recorded) ==
    [err |-> "none", warned |-> current # recorded]

\* load_checkpoint on the files df of the checkpoint directory, in git state g
LoadResult(df, g, it, m, o, mv, ov) ==
    IF g = "nogit"
    THEN [err |-> "FileNotFoundError", warned |-> FALSE, mval |-> mv, oval |-> ov]
    ELSE IF df[ShaName].kind # "text"
    THEN [err |-> "FileNotFoundError", warned |-> FALSE, mval |-> mv, oval |-> ov]
    ELSE LET current == CleanSha(GitStdout(g))
             recorded == CleanSha(df[ShaName].text)
             chk == ShaCheck(current, recorded)
             ld == TorchLoad(df[ArtifactName(it)])
         IN IF chk.err # "none"
            THEN [err |-> chk.err, warned |-> chk.warned, mval |-> mv, oval |-> ov]
            ELSE IF ld.err # "none"
            THEN [err |-> ld.err, warned |-> chk.warned, mval |-> mv, oval |-> ov]
            ELSE LET r == RestoreComponents(ld.obj, m, o, mv, ov)
                 IN [err |-> r.err, warned |-> chk.warned, mval |-> r.mval, oval |-> r.oval]

LoadCheckpoint(d, it, m, o, g) ==
    /\ handles[d] > 0
    /\ \E r \in {LoadResult(files[d], g, it, m, o, mval, oval)} :
          /\ mval' = r.mval
          /\ oval' = r.oval
          /\ last' = [op |-> "load", dir |-> d, step |-> it, model |-> m, opt |-> o,
                      git |-> g, err |-> r.err, warned |-> r.warned, replaced |-> FALSE]
    /\ UNCHANGED <<dirs, files, handles, snap, written, thr, reader, callers>>

(* ------------------------ create_checkpoint_dir ----------------------- *)

\* os.makedirs(path, exist_ok=True)
MakedirsExistOk(ds, path) == [err |-> "none", dirs |-> ds \cup {path}]

\* os.makedirs(path): raises when the directory exists
Makedirs(ds, path) ==
    IF path \in ds THEN [err |-> "FileExistsError", dirs |-> ds]
    ELSE [err |-> "none", dirs |-> ds \cup {path}]

\* what shutil.copy can find at config_ymlpath
ConfigInputs == {TextFile(c) : c \in Configs} \cup {NoFile}

\* the text written to commit_sha.txt
ShaToWrite(g) == CleanSha(GitStdout(g))

\* create_checkpoint_dir at time t: the error raised, the directories and
\* files afterwards, and the path returned
CreateResult(ds, fs, g, t, base, cfg) ==
    LET path == JoinDir(base, Strftime(t))
        mk == Makedirs(ds, path)
        f1 == [fs EXCEPT ![path][ConfigName] = cfg]
        f2 == [f1 EXCEPT ![path][ShaName] = TextFile(ShaToWrite(g))]
    IN IF mk.err # "none"
       THEN [err |-> mk.err, dirs |-> ds, files |-> fs, path |-> path]
       ELSE IF cfg = NoFile
       THEN [err |-> "FileNotFoundError", dirs |-> mk.dirs, files |-> fs, path |-> path]
       ELSE IF g = "nogit"
       THEN [err |-> "FileNotFoundError", dirs |-> mk.dirs, files |-> f1, path |-> path]
       ELSE [err |-> "none", dirs |-> mk.dirs, files |-> f2, path |-> path]

CreateCheckpointDir(base, cfg, g, t) ==
    \E r \in {CreateResult(dirs, files, g, t, base, cfg)} :
       /\ dirs' = r.dirs
       /\ files' = r.files
       /\ handles' = IF r.err = "none" THEN [handles EXCEPT ![r.path] = @ + 1] ELSE handles
       /\ last' = [op |-> "create", dir |-> r.path, step |-> 0, model |-> None, opt |-> None,
                   git |-> g, err |-> r.err, warned |-> FALSE, replaced |-> FALSE]
       /\ UNCHANGED <<mval, oval, snap, written, thr, reader, callers>>

(* ----------------------- threads and readers at rest ------------------ *)

\* the threads that can run save_checkpoint at the same time
Threads == {"t1", "t2"}

NoComponents == [model |-> [prefix |-> "", val |-> "w0"],
                 optimizer |-> [groups |-> 0, val |-> "w0"]]

\* a thread outside save_checkpoint
ThreadIdle == [pc |-> "idle", dir |-> <<"", 0>>, step |-> 0, model |-> None, opt |-> None,
               obj |-> NoComponents, overlap |-> "none"]

\* the code that holds a reference to one reader
Callers == {"c1", "c2"}

\* no ClevrTokensReader constructed yet
NoReader == [state |-> "unopened", err |-> "none", programs |-> <<>>, questions |-> <<>>,
             answers |-> <<>>, image_indices |-> <<>>, _split |-> ""]

NoIndex == [slice |-> FALSE, lo |-> 0, hi |-> 0]

NoColumns == [err |-> "none", programs |-> <<>>, questions |-> <<>>, answers |-> <<>>,
              image_indices |-> <<>>]

NoValue == [err |-> "none", kind |-> "none", items |-> <<>>, text |-> "", num |-> 0]

\* a caller outside every method of the reader
CallerIdle == [pc |-> "idle", op |-> "none", index |-> NoIndex, cols |-> NoColumns,
               res |-> NoValue]

(* ------------------------------ the driver ---------------------------- *)

\* training changes the parameters of a model
UpdateModel(m, v) ==
    /\ v # mval[m]
    /\ mval' = [mval EXCEPT ![m] = v]
    /\ last' = Idle
    /\ UNCHANGED <<dirs, files, handles, oval, snap, written, thr, reader, callers>>

\* training changes the buffers of an optimizer
UpdateOptimizer(o, v) ==
    /\ v # oval[o]
    /\ oval' = [oval EXCEPT ![o] = v]
    /\ last' = Idle
    /\ UNCHANGED <<dirs, files, handles, mval, snap, written, thr, reader, callers>>

Init ==
    /\ dirs = {}
    /\ files = [d \in DirPaths |-> EmptyDir]
    /\ handles = [d \in DirPaths |-> 0]
    /\ mval = [m \in Modules |-> "w0"]
    /\ oval = [o \in Optimizers |-> "w0"]
    /\ last = Idle
    /\ snap = [d \in DirPaths |-> [s \in Steps |-> NoSnap]]
    /\ written = [d \in DirPaths |-> {}]
    /\ thr = [t \in Threads |-> ThreadIdle]
    /\ reader = NoReader
    /\ callers = [c \in Callers |-> CallerIdle]

Next ==
    \/ \E base \in BaseDirs, cfg \in ConfigInputs, g \in GitStates, t \in Ticks :
          CreateCheckpointDir(base, cfg, g, t)
    \/ \E d \in DirPaths, it \in Steps, m \in Models, o \in Optimizers, io \in IoOutcomes :
          SaveCheckpoint(d, it, m, o, io)
    \/ \E d \in DirPaths, it \in Steps, m \in Models, o \in Optimizers \cup {None},
          g \in GitStates : LoadCheckpoint(d, it, m, o, g)
    \/ \E m \in Modules, v \in Vals : UpdateModel(m, v)
    \/ \E o \in Optimizers, v \in Vals : UpdateOptimizer(o, v)

Spec == Init /\ [][Next]_vars

(* ------------------- save_checkpoint from several threads ------------- *)

\* the threads, other than t, that hold a file of directory d open for
\* writing
Writers(th, t, d) == {u \in Threads \ {t} : th[u].pc = "writing" /\ th[u].dir = d}

\* what a thread that opens step it of d shares with the writers at work:
\* nothing, the directory, or the file itself
OverlapAtOpen(th, t, d, it) ==
    IF \E u \in Writers(th, t, d) : th[u].step = it THEN "file"
    ELSE IF Writers(th, t, d) # {} THEN "dir"
    ELSE "none"

\* what the writer u shares once t has opened step it of d as well
OverlapOf(th, u, t, d, it) ==
    IF u \notin Writers(th, t, d) THEN th[u].overlap
    ELSE IF th[u].step = it THEN "file"
    ELSE IF th[u].overlap = "none" THEN "dir"
    ELSE th[u].overlap

\* a writer that any other writer of the directory can disturb
PickleOutcomesSharedBuffer(obj, overlap) ==
    IF overlap = "none" THEN {PthFile(obj)} ELSE {PthFile(obj), Torn}

\* the file a completed write leaves: the pickle of obj, unless another
\* thread had the same path open for writing at the same time, when the
\* bytes of both land in one file in an order nothing fixes
PickleOutcomes(obj, overlap) ==
    IF overlap = "file" THEN {PthFile(obj), Torn} ELSE {PthFile(obj)}

\* a thread enters save_checkpoint and takes the state dicts
BeginSave(t, d, it, m, o) ==
    /\ thr[t].pc = "idle"
    /\ handles[d] > 0
    /\ thr' = [thr EXCEPT ![t] = [pc |-> "called", dir |-> d, step |-> it, model |-> m,
                                  opt |-> o, obj |-> SavedComponents(m, o, mval, oval),
                                  overlap |-> "none"]]
    /\ UNCHANGED <<dirs, files, handles, mval, oval, last, snap, written, reader, callers>>

\* torch.save opens the path for writing: the file is created or truncated
OpenArtifact(t, io) ==
    /\ thr[t].pc = "called"
    /\ IF io = "open_fails"
       THEN /\ thr' = [thr EXCEPT ![t].pc = "raised"]
            /\ files' = files
       ELSE /\ thr' = [u \in Threads |->
                         IF u = t
                         THEN [thr[t] EXCEPT !.pc = "writing",
                                  !.overlap = OverlapAtOpen(thr, t, thr[t].dir, thr[t].step)]
                         ELSE [thr[u] EXCEPT
                                  !.overlap = OverlapOf(thr, u, t, thr[t].dir, thr[t].step)]]
            /\ files' = [files EXCEPT ![thr[t].dir][ArtifactName(thr[t].step)] = Torn]
    /\ UNCHANGED <<dirs, handles, mval, oval, last, snap, written, reader, callers>>

\* torch.save writes the pickle and closes the file, or fails on the way
WriteArtifact(t, io) ==
    /\ thr[t].pc = "writing"
    /\ IF io = "write_fails"
       THEN /\ thr' = [thr EXCEPT ![t].pc = "raised"]
            /\ files' = [files EXCEPT ![thr[t].dir][ArtifactName(thr[t].step)] = Torn]
       ELSE /\ thr' = [thr EXCEPT ![t].pc = "returned"]
            /\ \E f \in PickleOutcomes(thr[t].obj, thr[t].overlap) :
                  files' = [files EXCEPT ![thr[t].dir][ArtifactName(thr[t].step)] = f]
    /\ UNCHANGED <<dirs, handles, mval, oval, last, snap, written, reader, callers>>

\* the driver joins the threads it started
JoinThreads ==
    /\ \A t \in Threads : thr[t].pc \in {"idle", "returned", "raised"}
    /\ \E t \in Threads : thr[t].pc # "idle"
    /\ thr' = [t \in Threads |-> ThreadIdle]
    /\ UNCHANGED <<dirs, files, handles, mval, oval, last, snap, written, reader, callers>>

\* a session directory that create_checkpoint_dir has returned
InitThreads ==
    \E base \in BaseDirs, cfg \in ConfigInputs, g \in GitStates, t \in Ticks :
       \E r \in {CreateResult({}, [d \in DirPaths |-> EmptyDir], g, t, base, cfg)} :
          /\ r.err = "none"
          /\ dirs = r.dirs
          /\ files = r.files
          /\ handles = [d \in DirPaths |-> IF d = r.path THEN 1 ELSE 0]
          /\ mval = [m \in Modules |-> "w0"]
          /\ oval = [o \in Optimizers |-> "w0"]
          /\ last = Idle
          /\ snap = [d \in DirPaths |-> [s \in Steps |-> NoSnap]]
          /\ written = [d \in DirPaths |-> {}]
          /\ thr = [u \in Threads |-> ThreadIdle]
          /\ reader = NoReader
          /\ callers = [c \in Callers |-> CallerIdle]

NextThreads ==
    \/ \E t \in Threads, d \in DirPaths, it \in Steps, m \in Modules, o \in Optimizers :
          BeginSave(t, d, it, m, o)
    \/ \E t \in Threads, io \in {"ok", "open_fails"} : OpenArtifact(t, io)
    \/ \E t \in Threads, io \in {"ok", "write_fails"} : WriteArtifact(t, io)
    \/ JoinThreads

SpecThreads == InitThreads /\ [][NextThreads]_vars

(* --------------------------- ClevrTokensReader ------------------------ *)

\* a dataset of n rows; row i of it is told apart from every other row of
\* every dataset
Column(name, n) == [i \in 1..n |-> <<name, i - 1>>]

\* what the HDF file can hold under a dataset name
Datasets(name) ==
    {[present |-> TRUE, rows |-> Column(name, n)] : n \in 0..MaxRows}
       \cup {[present |-> FALSE, rows |-> <<>>]}

\* what the HDF file can hold as its "split" attribute
SplitAttrs == {[present |-> TRUE, text |-> "train"], [present |-> FALSE, text |-> ""]}

NoHdf == [exists |-> FALSE, programs |-> [present |-> FALSE, rows |-> <<>>],
          questions |-> [present |-> FALSE, rows |-> <<>>],
          answers |-> [present |-> FALSE, rows |-> <<>>],
          image_indices |-> [present |-> FALSE, rows |-> <<>>],
          split |-> [present |-> FALSE, text |-> ""]]

\* what tokens_hdfpath can name
HdfFiles ==
    {[exists |-> TRUE, programs |-> p, questions |-> q, answers |-> a,
      image_indices |-> ii, split |-> sp] :
        p \in Datasets("programs"), q \in Datasets("questions"),
        a \in Datasets("answers"), ii \in Datasets("image_indices"), sp \in SplitAttrs}
       \cup {NoHdf}

\* a reader whose constructor raised
FailedReader(err) == [NoReader EXCEPT !.state = "failed", !.err = err]

\* __init__: h5py.File raises when the file cannot be opened, a dataset or
\* attribute lookup raises KeyError when the name is absent, and [:] copies
\* a dataset into memory
ReaderInit(hdf) ==
    IF ~hdf.exists THEN FailedReader("OSError")
    ELSE IF ~hdf.programs.present THEN FailedReader("KeyError")
    ELSE IF ~hdf.questions.present THEN FailedReader("KeyError")
    ELSE IF ~hdf.answers.present THEN FailedReader("KeyError")
    ELSE IF ~hdf.image_indices.present THEN FailedReader("KeyError")
    ELSE IF ~hdf.split.present THEN FailedReader("KeyError")
    ELSE [state |-> "open", err |-> "none", programs |-> hdf.programs.rows,
          questions |-> hdf.questions.rows, answers |-> hdf.answers.rows,
          image_indices |-> hdf.image_indices.rows, _split |-> hdf.split.text]

IntIndex(i) == [slice |-> FALSE, lo |-> i, hi |-> i]

SliceIndex(lo, hi) == [slice |-> TRUE, lo |-> lo, hi |-> hi]

\* the integer indices a caller passes: the last row counted from the end,
\* the first row, and the last row an array can have and the one after it
IntIndexes == {IntIndex(i) : i \in {-1, 0, MaxRows - 1, MaxRows}}

\* the slices lo:hi a caller passes: from the last row, the first or the
\* second, up to the first row, the last an array can have or one beyond
SliceIndexes ==
    {x \in {SliceIndex(lo, hi) : lo \in {-1, 0, 1}, hi \in {0, MaxRows, MaxRows + 1}} :
        x.lo <= x.hi}

\* ndarray[i]: a negative index counts from the end; IndexError outside
ArrayGetInt(arr, i) ==
    LET n == Len(arr)
        j == IF i < 0 THEN i + n ELSE i
    IN IF j < 0 \/ j >= n THEN [err |-> "IndexError", rows |-> <<>>]
       ELSE [err |-> "none", rows |-> <<arr[j + 1]>>]

\* slice.indices(n): a negative bound counts from the end, and every bound
\* is clamped into 0..n
SliceBound(b, n) ==
    IF b < 0 THEN (IF b + n < 0 THEN 0 ELSE b + n)
    ELSE IF b > n THEN n ELSE b

\* ndarray[lo:hi]
ArrayGetSlice(arr, lo, hi) ==
    LET n == Len(arr)
        l == SliceBound(lo, n)
        h == SliceBound(hi, n)
    IN [err |-> "none", rows |-> IF l >= h THEN <<>> ELSE SubSeq(arr, l + 1, h)]

ArrayGet(arr, index) ==
    IF index.slice THEN ArrayGetSlice(arr, index.lo, index.hi)
    ELSE ArrayGetInt(arr, index.lo)

\* __getitem__, the four lookups: the first that raises ends the call
FetchColumns(rd, index) ==
    LET p == ArrayGet(rd.programs, index)
        q == ArrayGet(rd.questions, index)
        a == ArrayGet(rd.answers, index)
        ii == ArrayGet(rd.image_indices, index)
    IN [err |-> IF p.err # "none" THEN p.err
                ELSE IF q.err # "none" THEN q.err
                ELSE IF a.err # "none" THEN a.err
                ELSE ii.err,
        programs |-> p.rows, questions |-> q.rows, answers |-> a.rows,
        image_indices |-> ii.rows]

Min2(a, b) == IF a < b THEN a ELSE b

\* zip(program, question, answer, image_index) as a list of dictionaries:
\* as long as the shortest of the four
ZipColumns(cols) ==
    LET n == Min2(Min2(Len(cols.programs), Len(cols.questions)),
                  Min2(Len(cols.answers), Len(cols.image_indices)))
    IN [i \in 1..n |-> [program |-> cols.programs[i], question |-> cols.questions[i],
                        answer |-> cols.answers[i],
                        image_index |-> cols.image_indices[i]]]

\* __getitem__, the return value: a list of dictionaries for a slice, one
\* dictionary otherwise
Assemble(cols, index) ==
    IF cols.err # "none" THEN [NoValue EXCEPT !.err = cols.err]
    ELSE IF index.slice THEN [NoValue EXCEPT !.kind = "list", !.items = ZipColumns(cols)]
    ELSE [NoValue EXCEPT !.kind = "dict", !.items = ZipColumns(cols)]

GetItem(rd, index) == Assemble(FetchColumns(rd, index), index)

\* ndarray.size: the number of elements, an int
NdarraySize(arr) == Len(arr)

\* calling an int: TypeError, 'int' object is not callable
CallInt(n, arg) == [NoValue EXCEPT !.err = "TypeError"]

\* __len__: self.image_indices.size(0)
ReaderLen(rd) == CallInt(NdarraySize(rd.image_indices), 0)

\* the split property
ReaderSplit(rd) == [NoValue EXCEPT !.kind = "str", !.text = rd._split]

\* keys: the class defines no such attribute
ReaderKeys(rd) == [NoValue EXCEPT !.err = "AttributeError"]

\* a reader that hands each row out once
AfterGetItemConsuming(rd, index) ==
    IF ArrayGet(rd.programs, index).rows = <<>> THEN rd
    ELSE [rd EXCEPT !.programs = Tail(@)]

\* the reader after __getitem__: the method assigns no attribute of self
AfterGetItem(rd, index) == rd

\* the constructor runs on the file at tokens_hdfpath
OpenReader ==
    /\ reader.state = "unopened"
    /\ \E hdf \in HdfFiles : reader' = ReaderInit(hdf)
    /\ UNCHANGED <<ckptVars, thr, callers>>

\* a caller that is in no method of the reader
Free(c) == callers[c].pc \in {"idle", "done"}

\* a call that ended, by a return or an exception
Done(op, index, res) ==
    [pc |-> "done", op |-> op, index |-> index, cols |-> NoColumns, res |-> res]

\* len(reader)
CallLen(c) ==
    /\ reader.state = "open"
    /\ Free(c)
    /\ callers' = [callers EXCEPT ![c] = Done("len", NoIndex, ReaderLen(reader))]
    /\ UNCHANGED <<ckptVars, thr, reader>>

\* reader.split
CallSplit(c) ==
    /\ reader.state = "open"
    /\ Free(c)
    /\ callers' = [callers EXCEPT ![c] = Done("split", NoIndex, ReaderSplit(reader))]
    /\ UNCHANGED <<ckptVars, thr, reader>>

\* reader.keys()
CallKeys(c) ==
    /\ reader.state = "open"
    /\ Free(c)
    /\ callers' = [callers EXCEPT ![c] = Done("keys", NoIndex, ReaderKeys(reader))]
    /\ UNCHANGED <<ckptVars, thr, reader>>

\* reader[index], the four lookups; an IndexError ends the call here
EnterGetItem(c, index) ==
    /\ reader.state = "open"
    /\ Free(c)
    /\ \E cols \in {FetchColumns(reader, index)} :
          callers' = [callers EXCEPT ![c] =
                         IF cols.err # "none"
                         THEN Done("getitem", index, Assemble(cols, index))
                         ELSE [pc |-> "fetched", op |-> "getitem", index |-> index,
                               cols |-> cols, res |-> NoValue]]
    /\ reader' = AfterGetItem(reader, index)
    /\ UNCHANGED <<ckptVars, thr>>

\* reader[index], the return value built from what was looked up
ReturnGetItem(c) ==
    /\ callers[c].pc = "fetched"
    /\ callers' = [callers EXCEPT ![c] =
                      Done("getitem", callers[c].index,
                           Assemble(callers[c].cols, callers[c].index))]
    /\ UNCHANGED <<ckptVars, thr, reader>>

NextReader ==
    \/ OpenReader
    \/ \E c \in Callers : CallLen(c)
    \/ \E c \in Callers : CallSplit(c)
    \/ \E c \in Callers : CallKeys(c)
    \/ \E c \in Callers, index \in IntIndexes \cup SliceIndexes : EnterGetItem(c, index)
    \/ \E c \in Callers : ReturnGetItem(c)

SpecReader == Init /\ [][NextReader]_vars

(* ------------------------------- claims ------------------------------- *)

\* the artifact file the last call named
LastArtifact == files[last.dir][ArtifactName(last.step)]

\* the state dict of the module behind either model argument
ObservedModel == ModuleStateDict(mval["net"])

\* the state dict an optimizer would give now
ObservedOptimizer(o) == OptimizerStateDict(o, oval[o])

\* the components S handed to the last save that wrote step s of d to the end
SavedBundle(d, s) ==
    [model |-> ModuleStateDict(snap[d][s].model),
     optimizer |-> [groups |-> snap[d][s].groups, val |-> snap[d][s].optimizer]]

\* C1: round trip. After a save of step s that returned, with no later save
\* to s, a load of s that returns leaves the model target and, when one is
\* passed, the optimizer target holding the state they had at the save; the
\* load can only fail for want of a git binary or because the optimizer
\* target has other parameter groups than the saved optimizer.
C1_RoundTrip ==
    (last.op = "load" /\ snap[last.dir][last.step].ok) =>
        LET S == SavedBundle(last.dir, last.step)
        IN /\ last.err = "none" =>
                 /\ ObservedModel = S.model
                 /\ last.opt # None => ObservedOptimizer(last.opt) = S.optimizer
           /\ last.err # "none" =>
                 \/ /\ last.err = "FileNotFoundError"
                    /\ last.git = "nogit"
                 \/ /\ last.err = "ValueError"
                    /\ last.opt # None
                    /\ ParamGroups(last.opt) # S.optimizer.groups

\* a load has restored a trained model and a trained optimizer
C1_Witness ==
    /\ last.op = "load"
    /\ last.err = "none"
    /\ last.opt # None
    /\ snap[last.dir][last.step].ok
    /\ snap[last.dir][last.step].model = "w1"
    /\ snap[last.dir][last.step].optimizer = "w1"
    /\ ObservedModel = ModuleStateDict("w1")
    /\ ObservedOptimizer(last.opt).val = "w1"

\* the artifact files of a session directory
ArtifactFiles(d) == {n \in ArtifactNames : files[d][n] # NoFile}

\* C2: last write wins. A session holds one artifact file per step that a
\* save has written, never more; after a save that returned, the file of its
\* step holds exactly the components of that call; and a load that returns
\* restores what the file of its step holds.
C2_LastWriteWins ==
    /\ \A d \in DirPaths :
          /\ Cardinality(ArtifactFiles(d)) = Cardinality(written[d])
          /\ ArtifactFiles(d) = {ArtifactName(s) : s \in written[d]}
    /\ (last.op = "save" /\ last.err = "none") =>
          LastArtifact = PthFile([model |-> ObservedModel,
                                  optimizer |-> ObservedOptimizer(last.opt)])
    /\ (last.op = "load" /\ last.err = "none") =>
          /\ LastArtifact.kind = "pth"
          /\ ObservedModel = LastArtifact.obj.model
          /\ last.opt # None => ObservedOptimizer(last.opt) = LastArtifact.obj.optimizer

\* a save has just replaced a complete artifact holding other components
C2_Witness ==
    /\ last.op = "save"
    /\ last.err = "none"
    /\ last.replaced
    /\ Cardinality(ArtifactFiles(last.dir)) = 1
    /\ LastArtifact.obj.model.val = "w1"

\* C3: all-or-nothing save. After a save that failed, the file of its step
\* is absent or a complete artifact holding a model and an optimizer entry;
\* it is never a partial file.
C3_SaveAllOrNothing ==
    (last.op = "save" /\ last.err # "none") =>
        \/ LastArtifact = NoFile
        \/ /\ LastArtifact.kind = "pth"
           /\ DOMAIN LastArtifact.obj = {"model", "optimizer"}

\* every target of the last load holds what the artifact holds
AllRestored ==
    /\ LastArtifact.kind = "pth"
    /\ ObservedModel = LastArtifact.obj.model
    /\ last.opt # None => ObservedOptimizer(last.opt) = LastArtifact.obj.optimizer

\* C4: atomic restore. A load, returning or failing, leaves either every
\* target restored from the artifact or no target modified.
C4_AtomicRestore ==
    [][last'.op = "load" => (AllRestored' \/ (mval' = mval /\ oval' = oval))]_vars

\* the commit recorded in the sidecar of d
RecordedSha(d) == CleanSha(files[d][ShaName].text)

\* the commit git reports in the state g
CurrentSha(g) == CleanSha(GitStdout(g))

\* C5: a commit mismatch warns and never fails. A load on an existing
\* artifact file, with git at hand, warns exactly when the current commit
\* differs from the recorded one; whether it differs or not, the load returns
\* with every target restored when the file is a complete artifact and the
\* optimizer target, if any, has the saved parameter groups, and otherwise
\* raises what the file or the optimizer target make it raise.
C5_MismatchOnlyWarns ==
    ( /\ last.op = "load"
      /\ last.git # "nogit"
      /\ LastArtifact # NoFile )
    => LET fits == last.opt # None =>
                      ParamGroups(last.opt) = LastArtifact.obj.optimizer.groups
       IN /\ last.warned <=> CurrentSha(last.git) # RecordedSha(last.dir)
          /\ last.err \in {"none", "UnpicklingError", "ValueError"}
          /\ last.err = "UnpicklingError" <=> LastArtifact.kind # "pth"
          /\ last.err = "ValueError" <=> (LastArtifact.kind = "pth" /\ ~fits)
          /\ last.err = "none" => AllRestored

\* a load has warned about the commit and restored both targets
C5_Witness ==
    /\ last.op = "load"
    /\ last.git = "b"
    /\ RecordedSha(last.dir) = <<"a">>
    /\ last.warned
    /\ last.err = "none"
    /\ last.opt # None
    /\ ObservedModel = ModuleStateDict("w1")
    /\ AllRestored

\* C6: a load of a step without an artifact file raises FileNotFoundError
\* and leaves every model and optimizer as it was.
C6_MissingArtifact ==
    [][(last'.op = "load" /\ files[last'.dir][ArtifactName(last'.step)] = NoFile) =>
          (last'.err = "FileNotFoundError" /\ mval' = mval /\ oval' = oval)]_vars

\* a load has failed on a step without a file, in a session that holds an
\* artifact of another step, after the commit check
C6_Witness ==
    /\ last.op = "load"
    /\ last.err = "FileNotFoundError"
    /\ last.git # "nogit"
    /\ last.opt # None
    /\ LastArtifact = NoFile
    /\ ArtifactFiles(last.dir) # {}

\* the component names a load asks for
TargetNames(o) == IF o = None THEN {"model"} ELSE {"model", "optimizer"}

C8_SessionFrame ==
    [][/\ \A d \in DirPaths :
             /\ d \in dirs => d \in dirs'
             /\ d \in dirs => /\ files'[d][ConfigName] = files[d][ConfigName]
                              /\ files'[d][ShaName] = files[d][ShaName]
             /\ \A s \in Steps :
                   /\ files[d][ArtifactName(s)] # NoFile => files'[d][ArtifactName(s)] # NoFile
                   /\ files'[d][ArtifactName(s)] # files[d][ArtifactName(s)] =>
                         (last'.op = "save" /\ last'.dir = d /\ last'.step = s)
       /\ last'.op = "load" => (dirs' = dirs /\ files' = files /\ handles' = handles)]_vars

\* a load has returned in a session that holds an artifact for every step
C8_Witness ==
    /\ last.op = "load"
    /\ last.err = "none"
    /\ written[last.dir] = Steps
    /\ files[last.dir][ConfigName] # NoFile
    /\ files[last.dir][ShaName] # NoFile

\* C9: a create_checkpoint_dir whose timestamp names an existing directory
\* raises FileExistsError, returns no path and changes no directory, file or
\* handle; no directory is ever returned twice.
C9_SameSecondCollision ==
    /\ [][(last'.op = "create" /\ last'.dir \in dirs) =>
             /\ last'.err = "FileExistsError"
             /\ dirs' = dirs
             /\ files' = files
             /\ handles' = handles]_vars
    /\ [](\A d \in DirPaths : handles[d] <= 1)

\* a second create has failed on the directory of a session with an artifact
C9_Witness ==
    /\ last.op = "create"
    /\ last.err = "FileExistsError"
    /\ handles[last.dir] = 1
    /\ ArtifactFiles(last.dir) # {}

\* C10: no fabricated tag. The sidecar of every directory that
\* create_checkpoint_dir returned holds a commit hash that git printed.
C10_NoFabricatedTag ==
    \A d \in DirPaths :
       handles[d] > 0 => files[d][ShaName] \in {TextFile(<<r>>) : r \in Revisions}

\* the threads that hold a file of d open for writing
WritingInto(d) == {t \in Threads : thr[t].pc = "writing" /\ thr[t].dir = d}

\* C11: mutual exclusion of artifact writes per session. Of the threads that
\* run save_checkpoint on one session directory, at most one at a time holds
\* an artifact file of that directory open for writing.
C11_MutualExclusion ==
    \A d \in DirPaths : Cardinality(WritingInto(d)) <= 1

\* C12: concurrent saves of different steps. Once two save_checkpoint calls
\* on one session with steps s1 # s2 have both returned, whatever the
\* interleaving of their steps, the file of s1 holds exactly the components
\* of the s1 call and the file of s2 exactly those of the s2 call.
C12_DisjointSteps ==
    \A t \in Threads, u \in Threads :
       (/\ t # u
        /\ thr[t].pc = "returned"
        /\ thr[u].pc = "returned"
        /\ thr[t].dir = thr[u].dir
        /\ thr[t].step # thr[u].step)
       => /\ files[thr[t].dir][ArtifactName(thr[t].step)] = PthFile(thr[t].obj)
          /\ files[thr[u].dir][ArtifactName(thr[u].step)] = PthFile(thr[u].obj)

\* two saves of different steps and different components have both
\* returned after holding their files open at the same time
C12_Witness ==
    /\ thr["t1"].pc = "returned"
    /\ thr["t2"].pc = "returned"
    /\ thr["t1"].dir = thr["t2"].dir
    /\ thr["t1"].step # thr["t2"].step
    /\ thr["t1"].obj # thr["t2"].obj
    /\ thr["t1"].overlap = "dir"
    /\ thr["t2"].overlap = "dir"

\* length() as __len__ means it: the rows of image_indices
RowCount == Len(reader.image_indices)

\* row i of the four arrays of the reader, as one record
RecordAt(i) ==
    [program |-> reader.programs[i + 1], question |-> reader.questions[i + 1],
     answer |-> reader.answers[i + 1], image_index |-> reader.image_indices[i + 1]]

\* the callers whose call of op has ended
Ended(op) == {c \in Callers : callers[c].pc = "done" /\ callers[c].op = op}

\* C13: for every reader that the constructor returned and every index i
\* with 0 <= i < length(), get(i) returns the record made of row i of
\* programs, of questions, of answers and of image_indices.
C13_GetRow ==
    \A c \in Ended("getitem") :
       (/\ ~callers[c].index.slice
        /\ 0 <= callers[c].index.lo
        /\ callers[c].index.lo < RowCount)
       => /\ callers[c].res.err = "none"
          /\ callers[c].res.kind = "dict"
          /\ callers[c].res.items = <<RecordAt(callers[c].index.lo)>>

\* C14: for every range [lo, hi) with 0 <= lo <= hi <= length(),
\* get([lo, hi)) returns exactly hi - lo records, the rows lo, lo+1, ...,
\* hi-1 in that order; an empty range returns an empty sequence.
C14_GetRange ==
    \A c \in Ended("getitem") :
       (/\ callers[c].index.slice
        /\ 0 <= callers[c].index.lo
        /\ callers[c].index.lo <= callers[c].index.hi
        /\ callers[c].index.hi <= RowCount)
       => /\ callers[c].res.err = "none"
          /\ callers[c].res.kind = "list"
          /\ Len(callers[c].res.items) = callers[c].index.hi - callers[c].index.lo
          /\ \A k \in 1..Len(callers[c].res.items) :
                callers[c].res.items[k] = RecordAt(callers[c].index.lo + k - 1)

\* an integer index outside 0..length()-1, or a range with a bound outside
\* 0..length()
OutOfRange(index) ==
    IF index.slice
    THEN index.lo < 0 \/ index.lo > RowCount \/ index.hi < 0 \/ index.hi > RowCount
    ELSE index.lo < 0 \/ index.lo >= RowCount

\* C15: bounds checking. A get with an index below 0 or not below length(),
\* or with a range bound outside 0..length(), raises IndexError; it never
\* returns a record or a sequence of records.
C15_BoundsChecked ==
    \A c \in Ended("getitem") :
       OutOfRange(callers[c].index) => callers[c].res.err = "IndexError"

\* C16: the constructor fails when one of the four arrays is missing or the
\* four do not have the same number of rows, so the four arrays of every
\* reader it returned have one common length.
C16_CorruptStore ==
    reader.state = "open"
       => /\ Len(reader.programs) = Len(reader.image_indices)
          /\ Len(reader.questions) = Len(reader.image_indices)
          /\ Len(reader.answers) = Len(reader.image_indices)

\* C17: length() returns, without failing, the common row count of the four
\* arrays loaded by the constructor.
C17_Length ==
    \A c \in Ended("len") :
       /\ callers[c].res.err = "none"
       /\ callers[c].res.kind = "int"
       /\ callers[c].res.num = RowCount

\* C18: keys() returns exactly 0, 1, ..., length()-1 in ascending order.
C18_Keys ==
    \A c \in Ended("keys") :
       /\ callers[c].res.err = "none"
       /\ callers[c].res.kind = "list"
       /\ callers[c].res.items = [k \in 1..RowCount |-> k - 1]

\* C19: the reader is read-only after construction. No step of a len, get,
\* split or keys call of any caller, however the calls of several callers
\* interleave, changes the four arrays or the split tag; so every get that
\* ended holds what the reader gives for its index now, two gets of one
\* index hold the same, and split gives the tag the constructor read.
C19_ReadOnly ==
    /\ [][reader.state = "open" => reader' = reader]_vars
    /\ [](\A c \in Ended("getitem") : callers[c].res = GetItem(reader, callers[c].index))
    /\ [](\A c \in Ended("getitem"), e \in Ended("getitem") :
             callers[c].index = callers[e].index => callers[c].res = callers[e].res)
    /\ [](\A c \in Ended("split") : callers[c].res.text = reader._split)

\* a get of two records has ended while another caller is halfway through
\* a get of the same range
C19_Witness ==
    /\ reader.state = "open"
    /\ callers["c1"].pc = "done"
    /\ callers["c1"].op = "getitem"
    /\ callers["c1"].index.slice
    /\ Len(callers["c1"].res.items) = 2
    /\ callers["c2"].pc = "fetched"
    /\ callers["c2"].index = callers["c1"].index

\* C20: wrapper transparency. A save of an nn.DataParallel writes what a
\* save of the module inside it writes, so every artifact holds the module's
\* own parameter names; and a load on a complete artifact, with git at hand,
\* restores the module behind its model argument, wrapped or not, raising
\* nothing but the ValueError of an optimizer with other parameter groups.
C20_WrapperTransparency ==
    /\ \A d \in DirPaths, s \in Steps :
          files[d][ArtifactName(s)].kind = "pth"
             => files[d][ArtifactName(s)].obj.model.prefix = ""
    /\ (last.op = "save" /\ last.err = "none")
          => LastArtifact.obj.model = ModuleStateDict(mval[ModuleOf(last.model)])
    /\ (last.op = "load" /\ last.git # "nogit" /\ LastArtifact.kind = "pth")
          => /\ last.err \in {"none", "ValueError"}
             /\ ObservedModel = LastArtifact.obj.model

\* a load into the wrapper has restored a trained model from an artifact
\* that a save wrote to the end
C20_Witness ==
    /\ last.op = "load"
    /\ last.model = "dp"
    /\ last.err = "none"
    /\ snap[last.dir][last.step].ok
    /\ snap[last.dir][last.step].model = "w1"
    /\ LastArtifact.obj.model = ModuleStateDict("w1")
    /\ ObservedModel = ModuleStateDict("w1")

====
